---- MODULE Spec2Model ----
(***************************************************************************)
(* Model of datasets.py: the CoNLL-X row parser (ConllRow.from_string),    *)
(* the sentence grouper (_iterate_conll_sentences), the column mapping     *)
(* (_validate_column_map, _make_example) and the dataset build             *)
(* (ConllXDatasetPos.__init__).                                            *)
(*                                                                         *)
(* A line is a sequence of one-character strings; a row is a sequence of   *)
(* fields, each field a sequence of characters.  A column mapping is a     *)
(* function from field indices to destination indices (a Python dict).     *)
(***************************************************************************)
EXTENDS Integers, Sequences, FiniteSets, TLC

VARIABLES
    path_ok,         \* whether open(path) succeeds
    lines,           \* the lines of the file, as file iteration yields them
    column_mapping,  \* the column_mapping argument: [none, map]
    filter_pred,     \* the filter_pred keyword argument: [none, n]
    pc,              \* position of the build
    file_open,       \* the file handle is open
    pos,             \* number of lines the grouper has consumed
    rows,            \* the grouper's accumulator
    emitted,         \* the sentences the grouper has yielded, in order
    examples,        \* the examples list of __init__
    dataset,         \* the constructed Dataset: [built, examples]
    error,           \* the exception the build raised, "" if none
    column_map,      \* argument of _validate_column_map / _make_example
    sentence,        \* argument of _make_example
    validated,       \* outcome of _validate_column_map, "unset" before the call
    made             \* outcome of _make_example: [state, cols, example]

vars == <<path_ok, lines, column_mapping, filter_pred, pc, file_open, pos, rows,
          emitted, examples, dataset, error, column_map, sentence, validated, made>>

buildVars == <<path_ok, lines, column_mapping, filter_pred, pc, file_open, pos,
               rows, emitted, examples, dataset, error>>

mapVars == <<column_map, sentence, validated, made>>

-----------------------------------------------------------------------------
(* Bounds *)

MaxLines == 3      \* lines in the input file, build with any arguments
MaxDefaultLines == 4  \* lines in the input file, build with the default mapping
MaxKeys == 2       \* keys in a column mapping given to the validator
MaxDest == 2       \* largest destination index tried
MaxRows == 2       \* rows in a sentence given to _make_example
FilterLen == 2     \* token-count threshold of the small inclusion predicate

-----------------------------------------------------------------------------
(* Program constants *)

_CONLL_SEPARATOR == "\t"

NumFields == 10

\* ConllField members used by the mappings below
ID == 0
FORM == 1
UPOS == 3
MISC == 9

TrainMaxLen == 50

_CONLL_POS_MAPPING == (FORM :> 0) @@ (UPOS :> 1)

\* _make_fields: the (name, field) pairs; the last pair is (None, None).
_make_fields == << [name |-> "word", field |-> TRUE],
                   [name |-> "pos", field |-> TRUE],
                   [name |-> "None", field |-> FALSE] >>

-----------------------------------------------------------------------------
(* Python builtins used by the code *)

Whitespace == {" ", "\t", "\n", "\r"}

RECURSIVE lstrip(_)
lstrip(s) == IF s /= <<>> /\ Head(s) \in Whitespace THEN lstrip(Tail(s)) ELSE s

RECURSIVE rstrip(_)
rstrip(s) ==
    IF s /= <<>> /\ s[Len(s)] \in Whitespace
    THEN rstrip(SubSeq(s, 1, Len(s) - 1))
    ELSE s

\* str.strip()
strip(s) == rstrip(lstrip(s))

\* str.split(sep) for a one-character separator: always at least one field.
RECURSIVE split(_, _)
split(s, sep) ==
    IF \E i \in 1..Len(s) : s[i] = sep
    THEN LET i == CHOOSE j \in 1..Len(s) :
                      s[j] = sep /\ \A h \in 1..(j - 1) : s[h] /= sep
         IN  <<SubSeq(s, 1, i - 1)>> \o split(SubSeq(s, i + 1, Len(s)), sep)
    ELSE <<s>>

\* sorted(xs) for a collection of integers given as a function or sequence.
RECURSIVE SortedSet(_)
SortedSet(S) ==
    IF S = {} THEN <<>>
    ELSE LET m == CHOOSE x \in S : \A y \in S : x <= y
         IN  <<m>> \o SortedSet(S \ {m})

\* sorted(list(d.values())): duplicates are kept.
RECURSIVE sorted_values(_)
sorted_values(d) ==
    IF DOMAIN d = {} THEN <<>>
    ELSE LET k == CHOOSE x \in DOMAIN d : \A y \in DOMAIN d : d[x] <= d[y]
             rest == [y \in DOMAIN d \ {k} |-> d[y]]
         IN  <<d[k]>> \o sorted_values(rest)

\* list(range(n))
range(n) == [i \in 1..n |-> i - 1]

-----------------------------------------------------------------------------
(* ConllRow.from_string: the NamedTuple constructor takes exactly 10       *)
(* positional arguments and raises TypeError otherwise.                    *)

\* variant: a constructor that takes any number of fields
from_string_any(string) ==
    [ok |-> TRUE, row |-> split(string, _CONLL_SEPARATOR)]

from_string(string) ==
    LET fs == split(string, _CONLL_SEPARATOR)
    IN  IF Len(fs) = NumFields
        THEN [ok |-> TRUE, row |-> fs]
        ELSE [ok |-> FALSE, row |-> <<>>]

-----------------------------------------------------------------------------
(* ConllXDatasetPos._validate_column_map *)

\* variant: the contiguity check is left out
_validate_column_map_no_contiguity(cm) ==
    LET values == sorted_values(cm)
    IN  IF ~(\A x \in DOMAIN cm : 0 <= x /\ x < NumFields)
        THEN "ValueError: out-of-range indices"
        ELSE IF values /= SortedSet({cm[x] : x \in DOMAIN cm})
        THEN "ValueError: destinations must be unique"
        ELSE "ok"

_validate_column_map(cm) ==
    LET values == sorted_values(cm)
    IN  IF ~(\A x \in DOMAIN cm : 0 <= x /\ x < NumFields)
        THEN "ValueError: out-of-range indices"
        ELSE IF values /= SortedSet({cm[x] : x \in DOMAIN cm})
        THEN "ValueError: destinations must be unique"
        ELSE IF values /= range(Len(values))
        THEN "ValueError: destinations must be contiguous"
        ELSE "ok"

-----------------------------------------------------------------------------
(* ConllXDatasetPos._make_example *)

\* variant: insert(0, v) instead of append(v)
append_column_front(acc, d, v) ==
    LET k == Len(acc.cols)
        j == IF d < 0 THEN d + k ELSE d
    IN  IF ~acc.ok THEN acc
        ELSE IF j < 0 \/ j >= k THEN [ok |-> FALSE, cols |-> acc.cols]
        ELSE [ok |-> TRUE,
              cols |-> [acc.cols EXCEPT ![j + 1] = <<v>> \o @]]

\* relevant_columns[d].append(v) with Python list indexing: a negative index
\* counts from the end, an index outside -k..k-1 raises IndexError.
append_column(acc, d, v) ==
    LET k == Len(acc.cols)
        j == IF d < 0 THEN d + k ELSE d
    IN  IF ~acc.ok THEN acc
        ELSE IF j < 0 \/ j >= k THEN [ok |-> FALSE, cols |-> acc.cols]
        ELSE [ok |-> TRUE,
              cols |-> [acc.cols EXCEPT ![j + 1] = Append(@, v)]]

\* the inner loop: for i, column_val in enumerate(row), from index i on
RECURSIVE row_columns(_, _, _, _)
row_columns(acc, row, i, cm) ==
    IF i >= Len(row) THEN acc
    ELSE row_columns(IF i \in DOMAIN cm
                     THEN append_column(acc, cm[i], row[i + 1])
                     ELSE acc,
                     row, i + 1, cm)

\* the outer loop: for row in sentence
RECURSIVE relevant_columns(_, _, _)
relevant_columns(acc, sent, cm) ==
    IF sent = <<>> THEN acc
    ELSE relevant_columns(row_columns(acc, Head(sent), 0, cm), Tail(sent), cm)

\* data.Example.fromlist(data, fields): zip(fields, data), one attribute per
\* pair whose field is not None.
fromlist(cols, fields) ==
    LET n == IF Len(cols) < Len(fields) THEN Len(cols) ELSE Len(fields)
        named == {i \in 1..n : fields[i].field}
    IN  [a \in {fields[i].name : i \in named} |->
            cols[CHOOSE i \in named :
                     fields[i].name = a
                     /\ \A h \in named : fields[h].name = a => h <= i]]

_make_example(sent, fields, cm) ==
    LET init == [ok |-> TRUE, cols |-> [i \in 1..Cardinality(DOMAIN cm) |-> <<>>]]
        acc == relevant_columns(init, sent, cm)
    IN  IF acc.ok
        THEN [state |-> "ok", cols |-> acc.cols, example |-> fromlist(acc.cols, fields)]
        ELSE [state |-> "IndexError", cols |-> <<>>, example |-> <<>>]

-----------------------------------------------------------------------------
(* _iterate_conll_sentences: one iteration of "for line in file".  The     *)
(* result gives the accumulator afterwards, the sentences yielded by the   *)
(* iteration (none or one) and whether from_string raised.                 *)

\* variant: the accumulator is not reset after a yield
grouper_step_keep(acc, raw) ==
    LET line == strip(raw)
    IN  IF line /= <<>>
        THEN LET r == from_string(line)
             IN  IF r.ok
                 THEN [ok |-> TRUE, rows |-> Append(acc, r.row), yield |-> <<>>]
                 ELSE [ok |-> FALSE, rows |-> acc, yield |-> <<>>]
        ELSE [ok |-> TRUE, rows |-> acc, yield |-> <<acc>>]

grouper_step(acc, raw) ==
    LET line == strip(raw)
    IN  IF line /= <<>>
        THEN LET r == from_string(line)
             IN  IF r.ok
                 THEN [ok |-> TRUE, rows |-> Append(acc, r.row), yield |-> <<>>]
                 ELSE [ok |-> FALSE, rows |-> acc, yield |-> <<>>]
        ELSE [ok |-> TRUE, rows |-> <<>>, yield |-> <<acc>>]

\* after the loop: "if rows: yield rows"
grouper_end(acc) == IF acc /= <<>> THEN <<acc>> ELSE <<>>

-----------------------------------------------------------------------------
(* ConllXDatasetPos.__init__ *)

\* "if column_mapping is None: column_mapping = _CONLL_POS_MAPPING"
effective_mapping(arg) == IF arg.none THEN _CONLL_POS_MAPPING ELSE arg.map

\* variant: the file is opened without a with block and never closed
with_exit_leak(open) == open

\* leaving the "with open(...)" block, normally or by an exception
with_exit(open) == FALSE

\* the predicate build_train_test passes: lambda x: len(x.word) < n
pred_defined(x) == "word" \in DOMAIN x

pred_call(fp, x) == Len(x.word) < fp.n

RECURSIVE filter(_, _)
filter(fp, xs) ==
    IF xs = <<>> THEN <<>>
    ELSE (IF pred_call(fp, Head(xs)) THEN <<Head(xs)>> ELSE <<>>)
         \o filter(fp, Tail(xs))

\* variant: filter_pred is ignored
Dataset_init_unfiltered(exs, fp) == [ok |-> TRUE, examples |-> exs]

\* super().__init__(examples, fields, **kwargs): data.Dataset keeps the
\* examples, filtered by filter_pred when one is given.
Dataset_init(exs, fp) ==
    IF fp.none THEN [ok |-> TRUE, examples |-> exs]
    ELSE IF \E i \in 1..Len(exs) : ~pred_defined(exs[i])
    THEN [ok |-> FALSE, examples |-> <<>>]
    ELSE [ok |-> TRUE, examples |-> filter(fp, exs)]

\* the loop body for the sentences one grouper iteration yielded
RECURSIVE append_examples(_, _, _)
append_examples(acc, sents, cm) ==
    IF sents = <<>> \/ ~acc.ok THEN acc
    ELSE LET ex == _make_example(Head(sents), _make_fields, cm)
         IN  IF ex.state = "ok"
             THEN append_examples([ok |-> TRUE,
                                   examples |-> Append(acc.examples, ex.example)],
                                  Tail(sents), cm)
             ELSE [ok |-> FALSE, examples |-> acc.examples]

Raise(e) ==
    /\ pc' = "raised"
    /\ error' = e
    /\ file_open' = with_exit(file_open)

\* open(path, mode="r", encoding=encoding)
Open ==
    /\ pc = "start"
    /\ IF path_ok
       THEN /\ file_open' = TRUE
            /\ pc' = "iterate"
            /\ error' = error
       ELSE /\ file_open' = file_open
            /\ pc' = "raised"
            /\ error' = "OSError"
    /\ UNCHANGED <<path_ok, lines, column_mapping, filter_pred, pos, rows,
                   emitted, examples, dataset>>
    /\ UNCHANGED mapVars

\* the grouper reads one line; a yielded sentence runs the loop body
ReadLine ==
    /\ pc = "iterate"
    /\ pos < Len(lines)
    /\ LET g == grouper_step(rows, lines[pos + 1])
           b == append_examples([ok |-> TRUE, examples |-> examples], g.yield,
                                effective_mapping(column_mapping))
       IN  IF ~g.ok
           THEN /\ Raise("TypeError")
                /\ UNCHANGED <<pos, rows, emitted, examples>>
           ELSE /\ emitted' = emitted \o g.yield
                /\ examples' = b.examples
                /\ IF b.ok
                   THEN /\ pos' = pos + 1
                        /\ rows' = g.rows
                        /\ UNCHANGED <<pc, error, file_open>>
                   ELSE /\ Raise("IndexError")
                        /\ UNCHANGED <<pos, rows>>
    /\ UNCHANGED <<path_ok, lines, column_mapping, filter_pred, dataset>>
    /\ UNCHANGED mapVars

\* the file is exhausted: the grouper flushes its accumulator, the loop and
\* the with block end
EndOfFile ==
    /\ pc = "iterate"
    /\ pos = Len(lines)
    /\ LET y == grouper_end(rows)
           b == append_examples([ok |-> TRUE, examples |-> examples], y,
                                effective_mapping(column_mapping))
       IN  /\ emitted' = emitted \o y
           /\ examples' = b.examples
           /\ IF b.ok
              THEN /\ pc' = "closed"
                   /\ file_open' = with_exit(file_open)
                   /\ error' = error
              ELSE Raise("IndexError")
    /\ UNCHANGED <<path_ok, lines, column_mapping, filter_pred, pos, rows, dataset>>
    /\ UNCHANGED mapVars

\* super().__init__(examples, fields, **kwargs)
SuperInit ==
    /\ pc = "closed"
    /\ LET d == Dataset_init(examples, filter_pred)
       IN  IF d.ok
           THEN /\ dataset' = [built |-> TRUE, examples |-> d.examples]
                /\ pc' = "done"
                /\ error' = error
           ELSE /\ dataset' = dataset
                /\ pc' = "raised"
                /\ error' = "AttributeError"
    /\ UNCHANGED <<path_ok, lines, column_mapping, filter_pred, file_open, pos,
                   rows, emitted, examples>>
    /\ UNCHANGED mapVars

-----------------------------------------------------------------------------
(* Inputs *)

T == _CONLL_SEPARATOR

Blank == <<"\n">>

BlankWs == <<" ", T, "\n">>

\* "1 No _ RB RB _ 7 discourse _ _" with one character per field
LineNo ==
    <<"1", T, "a", T, "_", T, "R", T, "r", T, "_", T, "7", T, "d", T, "_", T, "m", "\n">>

\* "1 But _ CC CC _ 33 cc _ _", indented
LineBut ==
    <<" ", "2", T, "b", T, "_", T, "C", T, "c", T, "_", T, "3", T, "e", T, "_", T, "n", "\n">>

\* ten fields of which the last is empty: nine after strip()
LineShort ==
    <<"3", T, "c", T, "_", T, "N", T, "n", T, "_", T, "0", T, "f", T, "_", T, "\n">>

\* eleven fields
LineLong ==
    <<"4", T, "d", T, "_", T, "V", T, "v", T, "_", T, "0", T, "g", T, "_", T, "_", T, "x", "\n">>

LineSet == {Blank, BlankWs, LineNo, LineBut, LineShort, LineLong}

SeqsUpTo(S, n) == UNION {[1..k -> S] : k \in 0..n}

Files == SeqsUpTo(LineSet, MaxLines)

\* column_mapping arguments of the build: None, a custom valid mapping, an
\* empty one, and one for each way of being ill-formed
BuildMappings ==
    { (FORM :> 1) @@ (UPOS :> 0),
      (FORM :> 0),
      (FORM :> 0) @@ (NumFields :> 1),
      (FORM :> 0) @@ (UPOS :> 0),
      (FORM :> 0) @@ (UPOS :> MaxDest) }

MappingArgs ==
    {[none |-> TRUE, map |-> <<>>]} \cup {[none |-> FALSE, map |-> m] : m \in BuildMappings}

FilterArgs ==
    {[none |-> TRUE, n |-> 0], [none |-> FALSE, n |-> FilterLen],
     [none |-> FALSE, n |-> TrainMaxLen]}

MapKeySet == {-1, ID, FORM, UPOS, MISC, NumFields}

DestSet == -1..MaxDest

ColumnMaps ==
    UNION {[K -> DestSet] : K \in {K \in SUBSET MapKeySet : Cardinality(K) <= MaxKeys}}

RowSet == {from_string(strip(l)).row : l \in {LineNo, LineBut}}

Sentences == SeqsUpTo(RowSet, MaxRows)

-----------------------------------------------------------------------------
(* The build: ConllXDatasetPos(path, fields, column_mapping, filter_pred)  *)

BuildIdle ==
    /\ column_map = <<>>
    /\ sentence = <<>>
    /\ validated = "unset"
    /\ made = [state |-> "unset", cols |-> <<>>, example |-> <<>>]

Init ==
    /\ path_ok \in BOOLEAN
    /\ lines \in Files
    /\ column_mapping \in MappingArgs
    /\ filter_pred \in FilterArgs
    /\ pc = "start"
    /\ file_open = FALSE
    /\ pos = 0
    /\ rows = <<>>
    /\ emitted = <<>>
    /\ examples = <<>>
    /\ dataset = [built |-> FALSE, examples |-> <<>>]
    /\ error = ""
    /\ BuildIdle

Next == Open \/ ReadLine \/ EndOfFile \/ SuperInit

Spec == Init /\ [][Next]_vars

-----------------------------------------------------------------------------
(* The column mapper on its own: _validate_column_map and _make_example    *)
(* applied to a mapping and a sentence.                                    *)

Validate ==
    /\ validated = "unset"
    /\ validated' = _validate_column_map(column_map)
    /\ UNCHANGED <<column_map, sentence, made>>
    /\ UNCHANGED buildVars

MakeExample ==
    /\ made.state = "unset"
    /\ made' = _make_example(sentence, _make_fields, column_map)
    /\ UNCHANGED <<column_map, sentence, validated>>
    /\ UNCHANGED buildVars

InitMap ==
    /\ column_map \in ColumnMaps
    /\ sentence \in Sentences
    /\ validated = "unset"
    /\ made = [state |-> "unset", cols |-> <<>>, example |-> <<>>]
    /\ path_ok = FALSE
    /\ lines = <<>>
    /\ column_mapping = [none |-> TRUE, map |-> <<>>]
    /\ filter_pred = [none |-> TRUE, n |-> 0]
    /\ pc = "idle"
    /\ file_open = FALSE
    /\ pos = 0
    /\ rows = <<>>
    /\ emitted = <<>>
    /\ examples = <<>>
    /\ dataset = [built |-> FALSE, examples |-> <<>>]
    /\ error = ""

NextMap == Validate \/ MakeExample

SpecMap == InitMap /\ [][NextMap]_vars

-----------------------------------------------------------------------------
(* The build with the default column mapping (column_mapping=None) on      *)
(* longer files, with and without filter_pred.                             *)

InitDefault ==
    /\ path_ok = TRUE
    /\ lines \in SeqsUpTo(LineSet, MaxDefaultLines)
    /\ column_mapping = [none |-> TRUE, map |-> <<>>]
    /\ filter_pred \in FilterArgs
    /\ pc = "start"
    /\ file_open = FALSE
    /\ pos = 0
    /\ rows = <<>>
    /\ emitted = <<>>
    /\ examples = <<>>
    /\ dataset = [built |-> FALSE, examples |-> <<>>]
    /\ error = ""
    /\ BuildIdle

SpecDefault == InitDefault /\ [][Next]_vars

-----------------------------------------------------------------------------
(* Vocabulary of the properties, defined on the raw input independently of *)
(* the operators above.                                                    *)

\* positions of the characters of l that are not whitespace
Core(l) == {i \in 1..Len(l) : l[i] \notin Whitespace}

IsBlankLine(l) == Core(l) = {}

First(l) == CHOOSE i \in Core(l) : \A j \in Core(l) : i <= j

Last(l) == CHOOSE i \in Core(l) : \A j \in Core(l) : j <= i

\* positions of the separators between the first and the last non-blank character
Seps(l) == {i \in First(l)..Last(l) : l[i] = "\t"}

\* number of tab-separated fields of a non-blank line, once stripped
FieldCount(l) == Cardinality(Seps(l)) + 1

IsBadLine(l) == ~IsBlankLine(l) /\ FieldCount(l) /= 10

IsRowLine(l) == ~IsBlankLine(l) /\ FieldCount(l) = 10

\* field i (0-based) of a row line: the characters between separators i and i+1
FieldOf(l, i) ==
    LET before == {p \in Seps(l) : Cardinality({q \in Seps(l) : q < p}) = i - 1}
        after == {p \in Seps(l) : Cardinality({q \in Seps(l) : q < p}) = i}
        lo == IF i = 0 THEN First(l) ELSE (CHOOSE p \in before : TRUE) + 1
        hi == IF after = {} THEN Last(l) ELSE (CHOOSE p \in after : TRUE) - 1
    IN  SubSeq(l, lo, hi)

\* what the format says of each line of the input alphabet: blank, or how
\* many fields, and the record of a line of 10 fields
LineInfo ==
    [l \in LineSet |->
        [blank |-> IsBlankLine(l),
         bad |-> IsBadLine(l),
         record |-> IF IsRowLine(l) THEN [i \in 1..10 |-> FieldOf(l, i - 1)] ELSE <<>>]]

RecordOf(l) == LineInfo[l].record

\* the records of lines a..b
RecordsOf(ls, a, b) == [j \in 1..(b - a + 1) |-> RecordOf(ls[a + j - 1])]

RECURSIVE Flatten(_)
Flatten(ss) == IF ss = <<>> THEN <<>> ELSE Head(ss) \o Flatten(Tail(ss))

\* the records of the non-blank lines among the first n lines, in order
RECURSIVE NonBlankRecords(_, _)
NonBlankRecords(ls, n) ==
    IF n = 0 THEN <<>>
    ELSE NonBlankRecords(ls, n - 1)
         \o (IF LineInfo[ls[n]].blank THEN <<>> ELSE <<RecordOf(ls[n])>>)

\* first lines of the maximal runs of non-blank lines
RunStarts(ls) ==
    {i \in 1..Len(ls) : ~LineInfo[ls[i]].blank /\ (i = 1 \/ LineInfo[ls[i - 1]].blank)}

RunEnd(ls, a) ==
    CHOOSE b \in a..Len(ls) :
        /\ \A i \in a..b : ~LineInfo[ls[i]].blank
        /\ (b = Len(ls) \/ LineInfo[ls[b + 1]].blank)

\* the a-th smallest element of a set of integers
Nth(S, a) == CHOOSE x \in S : Cardinality({y \in S : y <= x}) = a

\* well-formed CoNLL-X: rows of 10 fields, sentences separated by one or
\* more empty lines, at most one empty line at the end, none at the start
WellFormed(ls) ==
    /\ \A i \in 1..Len(ls) : ls[i] = <<"\n">> \/ LineInfo[ls[i]].record /= <<>>
    /\ (ls /= <<>> => ls[1] /= <<"\n">>)
    /\ (Len(ls) >= 2 /\ ls[Len(ls)] = <<"\n">> => ls[Len(ls) - 1] /= <<"\n">>)

Exhausted == pc \in {"closed", "done"}

\* the three invariants of a ColumnMapping
KeysInRange(cm) == \A x \in DOMAIN cm : x \in 0..9

DestinationsDistinct(cm) == \A x, y \in DOMAIN cm : x /= y => cm[x] /= cm[y]

DestinationsContiguous(cm) ==
    {cm[x] : x \in DOMAIN cm} = 0..(Cardinality(DOMAIN cm) - 1)

ValidMapping(cm) ==
    KeysInRange(cm) /\ DestinationsDistinct(cm) /\ DestinationsContiguous(cm)

-----------------------------------------------------------------------------
(* Properties *)

\* C1: every Sentence the grouper emits contains at least one Record, and an
\* input with no non-blank line yields no Sentence at all.
C1_NoEmptySentence ==
    /\ \A i \in 1..Len(emitted) : emitted[i] /= <<>>
    /\ (Exhausted /\ (\A i \in 1..Len(lines) : LineInfo[lines[i]].blank)
            => emitted = <<>>)

\* C2: a build whose column mapping is ill-formed never opens the file and
\* never reads a line: it stops with the mapping error.
C2_ValidatedBeforeOpen ==
    ~ValidMapping(effective_mapping(column_mapping))
        => /\ ~file_open
           /\ pos = 0
           /\ pc \in {"start", "raised"}
           /\ (pc = "raised" => error = "ValueError")

\* C3: on well-formed input the grouper emits as many Sentences as the input
\* has maximal runs of non-blank lines.
C3_SentenceCount ==
    Exhausted /\ WellFormed(lines)
        => Len(emitted) = Cardinality(RunStarts(lines))

\* C4: _validate_column_map returns without error exactly when the keys are
\* in 0..9, the destinations are pairwise distinct and the destinations are
\* exactly 0..k-1.
C4_ValidatorExact ==
    validated /= "unset" => (validated = "ok" <=> ValidMapping(column_map))

C4_Witness ==
    /\ validated = "ok"
    /\ column_map = (1 :> 0) @@ (3 :> 1)

\* C5: the build never gets past a line that does not have exactly 10
\* fields: it raises at that line, and no Dataset is built from an input
\* containing such a line.
C5_NoPartialDataset ==
    /\ \A i \in 1..pos : ~LineInfo[lines[i]].bad
    /\ (error = "TypeError"
            => pc = "raised" /\ pos < Len(lines) /\ LineInfo[lines[pos + 1]].bad)
    /\ (pc = "raised" => ~dataset.built /\ dataset.examples = <<>>)
    /\ (dataset.built => \A i \in 1..Len(lines) : ~LineInfo[lines[i]].bad)

C5_Witness ==
    /\ error = "TypeError"
    /\ examples /= <<>>
    /\ emitted[1] /= <<>>
    /\ ~dataset.built

\* C6: for a validated mapping with k keys and a Sentence of n Records,
\* _make_example fills exactly k columns, each of length n, and entry j of
\* column mapping[i] is field i of Record j.
C6_Columns ==
    validated = "ok" /\ made.state /= "unset"
        => /\ made.state = "ok"
           /\ Len(made.cols) = Cardinality(DOMAIN column_map)
           /\ \A c \in 1..Len(made.cols) : Len(made.cols[c]) = Len(sentence)
           /\ \A i \in DOMAIN column_map : \A j \in 1..Len(sentence) :
                  made.cols[column_map[i] + 1][j] = sentence[j][i + 1]

C6_Witness ==
    /\ validated = "ok"
    /\ made.state = "ok"
    /\ Cardinality(DOMAIN column_map) = 2
    /\ Len(sentence) = 2
    /\ sentence[1] /= sentence[2]

\* C7: without column mapping and filter, the Dataset has one Example per
\* sentence (maximal run of non-blank lines) of the file, in file order, with
\* word = the FORM fields and pos = the UPOS fields of the sentence's tokens.
C7_DefaultDataset ==
    pc = "done" /\ column_mapping.none /\ filter_pred.none /\ WellFormed(lines)
        => /\ Len(dataset.examples) = Cardinality(RunStarts(lines))
           /\ \A a \in 1..Len(dataset.examples) :
                  LET s == Nth(RunStarts(lines), a)
                      e == RunEnd(lines, s)
                  IN  dataset.examples[a] =
                          [word |-> [j \in 1..(e - s + 1) |-> RecordOf(lines[s + j - 1])[2]],
                           pos |-> [j \in 1..(e - s + 1) |-> RecordOf(lines[s + j - 1])[4]]]

C9_FileClosed ==
    pc \in {"closed", "done", "raised"} => ~file_open

C9_Witness ==
    /\ pc = "raised"
    /\ error = "TypeError"
    /\ pos > 0
    /\ ~file_open

\* C10: the grouper conserves records: the emitted Sentences followed by the
\* accumulator are the Records of the non-blank lines read so far, in input
\* order, each once; after the input is exhausted the emitted Sentences alone
\* are the Records of all non-blank lines; and every emitted Sentence is made
\* of consecutive non-blank lines.
C10_Conservation ==
    /\ (~Exhausted => Flatten(emitted) \o rows = NonBlankRecords(lines, pos))
    /\ (Exhausted => Flatten(emitted) = NonBlankRecords(lines, Len(lines)))
    /\ \A s \in 1..Len(emitted) :
           \E a \in 1..(Len(lines) + 1) : \E b \in (a - 1)..Len(lines) :
               /\ b - a + 1 = Len(emitted[s])
               /\ \A i \in a..b : ~LineInfo[lines[i]].blank
               /\ emitted[s] = RecordsOf(lines, a, b)

C10_Witness ==
    /\ pc = "done"
    /\ Len(emitted) = 2
    /\ Len(emitted[1]) = 2
    /\ Len(emitted[2]) = 1

====
